---- MODULE Spec2Model ----
(***************************************************************************)
(* Model of the job ingestion / scoring / ranking pipeline of              *)
(* src/src/mixed_scraper.py (class UnifiedJobScraper) and of its two       *)
(* callers (main of mixed_scraper.py, the Search Jobs page of app.py).     *)
(*                                                                         *)
(* Text is a sequence of one-character strings, so that lower(), split()   *)
(* and the substring test `kw in job_text` are computed as Python computes *)
(* them.  A score is an exact rational <<numerator, denominator>>; the     *)
(* stored match_score is that rational rounded to hundredths.  min_score   *)
(* is kept in thousandths.                                                 *)
(***************************************************************************)
EXTENDS Integers, Sequences, FiniteSets, TLC

(***************************************************************************)
(* Text primitives                                                         *)
(***************************************************************************)
UpperAlphabet ==
  <<"A","B","C","D","E","F","G","H","I","J","K","L","M",
    "N","O","P","Q","R","S","T","U","V","W","X","Y","Z">>

LowerAlphabet ==
  <<"a","b","c","d","e","f","g","h","i","j","k","l","m",
    "n","o","p","q","r","s","t","u","v","w","x","y","z">>

\* str.lower(), one character
LowerChar(c) ==
  IF \E i \in 1..26 : UpperAlphabet[i] = c
  THEN LowerAlphabet[CHOOSE i \in 1..26 : UpperAlphabet[i] = c]
  ELSE c

\* str.lower()
RECURSIVE Lower(_)
Lower(s) == IF Len(s) = 0 THEN <<>> ELSE <<LowerChar(Head(s))>> \o Lower(Tail(s))

\* `sub in s` on Python strings (the empty string is in every string)
Contains(sub, s) ==
  \/ Len(sub) = 0
  \/ \E i \in 1..(Len(s) - Len(sub) + 1) : SubSeq(s, i, i + Len(sub) - 1) = sub

\* s[:n]
Truncate(s, n) == IF Len(s) <= n THEN s ELSE SubSeq(s, 1, n)

\* index of the first blank of s at or after i, Len(s)+1 when there is none
RECURSIVE NextBlank(_, _)
NextBlank(s, i) ==
  IF i > Len(s) THEN Len(s) + 1
  ELSE IF s[i] = " " THEN i
  ELSE NextBlank(s, i + 1)

\* str.split() with no argument: the maximal runs of non-blank characters
RECURSIVE SplitFrom(_, _)
SplitFrom(s, i) ==
  IF i > Len(s) THEN <<>>
  ELSE IF s[i] = " " THEN SplitFrom(s, i + 1)
  ELSE LET j == NextBlank(s, i)
       IN  <<SubSeq(s, i, j - 1)>> \o SplitFrom(s, j)

Split(s) == SplitFrom(s, 1)

\* " ".join(words)
RECURSIVE Join(_)
Join(words) ==
  IF Len(words) = 0 THEN <<>>
  ELSE IF Len(words) = 1 THEN words[1]
  ELSE words[1] \o <<" ">> \o Join(Tail(words))

\* [w for w in words if len(w) > n]
RECURSIVE WordsLongerThan(_, _)
WordsLongerThan(words, n) ==
  IF Len(words) = 0 THEN <<>>
  ELSE (IF Len(Head(words)) > n THEN <<Head(words)>> ELSE <<>>)
       \o WordsLongerThan(Tail(words), n)

\* number of indices of s whose element satisfies Test
CountSeq(s, Test(_)) == Cardinality({i \in 1..Len(s) : Test(s[i])})

\* dict.get(key, default)
Get(d, key, default) == IF key \in DOMAIN d THEN d[key] ELSE default

(***************************************************************************)
(* Exact rationals <<n, d>> with d > 0                                     *)
(***************************************************************************)
RatAdd(p, q) == <<p[1] * q[2] + q[1] * p[2], p[2] * q[2]>>

RatLess(p, q) == p[1] * q[2] < q[1] * p[2]

RatEq(p, q) == p[1] * q[2] = q[1] * p[2]

RatMin(p, q) == IF RatLess(q, p) THEN q ELSE p

\* round(x, 2) in hundredths, ties to even
Round2(p) ==
  LET fl  == (p[1] * 100) \div p[2]
      rem == (p[1] * 100) % p[2]
  IN  IF 2 * rem > p[2] THEN fl + 1
      ELSE IF 2 * rem < p[2] THEN fl
      ELSE IF fl % 2 = 0 THEN fl ELSE fl + 1

(***************************************************************************)
(* Match scorer                                                            *)
(***************************************************************************)
\* the truth value Python gives a string
Truthy(s) == Len(s) > 0

\* [w.lower() for w in words]
RECURSIVE LowerAll(_)
LowerAll(words) ==
  IF Len(words) = 0 THEN <<>> ELSE <<Lower(Head(words))>> \o LowerAll(Tail(words))

\* f"{job.get('title', '')} {job.get('description', '')}".lower()
JobText(job) ==
  Lower(Get(job, "title", <<>>) \o <<" ">> \o Get(job, "description", <<>>))

\* domain_keywords: the lower-cased words longer than 4 of every domain
RECURSIVE DomainKeywords(_)
DomainKeywords(domains) ==
  IF Len(domains) = 0 THEN <<>>
  ELSE LowerAll(WordsLongerThan(Split(Head(domains)), 4))
       \o DomainKeywords(Tail(domains))

\* a domain signal that is all or nothing
DomainSignal_any(job_text, cv) ==
  IF "job_search_intent" \in DOMAIN cv /\ "domains" \in DOMAIN cv.job_search_intent
  THEN LET domains == cv.job_search_intent.domains
           domain_keywords == DomainKeywords(domains)
           matching == CountSeq(domain_keywords, LAMBDA kw : Contains(kw, job_text))
       IN  IF Len(domains) > 0 /\ matching > 0
           THEN <<30, 1>>
           ELSE <<0, 1>>
  ELSE <<0, 1>>

\* "Check domains (30 points)"
DomainSignal(job_text, cv) ==
  IF "job_search_intent" \in DOMAIN cv /\ "domains" \in DOMAIN cv.job_search_intent
  THEN LET domains == cv.job_search_intent.domains
           domain_keywords == DomainKeywords(domains)
           matching == CountSeq(domain_keywords, LAMBDA kw : Contains(kw, job_text))
       IN  IF Len(domains) > 0 /\ Len(domain_keywords) > 0
           THEN <<30 * matching, Len(domain_keywords)>>
           ELSE <<0, 1>>
  ELSE <<0, 1>>

\* the skill matches whole: skill_lower in job_text
SkillWhole(skill, job_text) == Contains(Lower(skill), job_text)

\* any(word in job_text for word in skill_words if len(word) > 3)
SkillPartial(skill, job_text) ==
  LET skill_words == WordsLongerThan(Split(Lower(skill)), 3)
  IN  \E i \in 1..Len(skill_words) : Contains(skill_words[i], job_text)

\* a skill signal over every technical skill of the profile
SkillSignal_all(job_text, cv) ==
  IF "skills" \in DOMAIN cv /\ "technical" \in DOMAIN cv.skills
  THEN LET skills == cv.skills.technical
           whole  == CountSeq(skills, LAMBDA sk : SkillWhole(sk, job_text))
           half   == CountSeq(skills, LAMBDA sk : ~SkillWhole(sk, job_text)
                                                  /\ SkillPartial(sk, job_text))
       IN  IF Len(skills) > 0
           THEN <<35 * (2 * whole + half), 2 * Len(skills)>>
           ELSE <<0, 1>>
  ELSE <<0, 1>>

\* "Check skills (35 points)"; matching_skills is counted in halves
SkillSignal(job_text, cv) ==
  IF "skills" \in DOMAIN cv /\ "technical" \in DOMAIN cv.skills
  THEN LET skills == Truncate(cv.skills.technical, 20)
           whole  == CountSeq(skills, LAMBDA sk : SkillWhole(sk, job_text))
           half   == CountSeq(skills, LAMBDA sk : ~SkillWhole(sk, job_text)
                                                  /\ SkillPartial(sk, job_text))
       IN  IF Len(skills) > 0
           THEN <<35 * (2 * whole + half), 2 * Len(skills)>>
           ELSE <<0, 1>>
  ELSE <<0, 1>>

tunis == <<"t","u","n","i","s">>

\* a location bonus that looks at the location only
LocationSignal_local(job) ==
  IF Contains(tunis, Lower(Get(job, "location", <<>>)))
  THEN <<15, 1>> ELSE <<0, 1>>

\* "Location bonus (15 points)"
LocationSignal(job) ==
  IF Contains(tunis, Lower(Get(job, "location", <<>>))) \/ Get(job, "is_remote", FALSE)
  THEN <<15, 1>> ELSE <<0, 1>>

\* "Title match (10 points)"
TitleSignal(job, cv) ==
  LET cv_title  == Lower(Get(cv, "title", <<>>))
      job_title == Lower(Get(job, "title", <<>>))
      title_words == WordsLongerThan(Split(cv_title), 3)
      matching == CountSeq(title_words, LAMBDA w : Contains(w, job_title))
  IN  IF Truthy(cv_title) /\ Truthy(job_title) /\ Len(title_words) > 0
      THEN <<10 * matching, Len(title_words)>>
      ELSE <<0, 1>>

\* +10 when the posting has a title
PresenceSignal(job) == IF Truthy(Get(job, "title", <<>>)) THEN <<10, 1>> ELSE <<0, 1>>

\* the scorer with the location bonus subtracted instead of added
calculate_match_score_penalty(job, cv) ==
  LET job_text == JobText(job)
      loc == LocationSignal(job)
      score == RatAdd(RatAdd(RatAdd(RatAdd(PresenceSignal(job),
                                           DomainSignal(job_text, cv)),
                                    SkillSignal(job_text, cv)),
                             <<0 - loc[1], loc[2]>>),
                      TitleSignal(job, cv))
  IN  RatMin(score, <<100, 1>>)

calculate_match_score(job, cv) ==
  LET job_text == JobText(job)
      score == RatAdd(RatAdd(RatAdd(RatAdd(PresenceSignal(job),
                                           DomainSignal(job_text, cv)),
                                    SkillSignal(job_text, cv)),
                             LocationSignal(job)),
                      TitleSignal(job, cv))
  IN  RatMin(score, <<100, 1>>)

(***************************************************************************)
(* Texts used as inputs                                                    *)
(***************************************************************************)
T_Python == <<"P","y","t","h","o","n">>

T_Linux == <<"L","i","n","u","x">>

T_SQL == <<"S","Q","L">>

T_cybersecurity == <<"c","y","b","e","r","s","e","c","u","r","i","t","y">>

T_PythonSecurityEngineer == <<"P","y","t","h","o","n"," ","S","e","c","u","r","i","t","y"," ","E","n","g","i","n","e","e","r">>

T_LinuxNetworkSecurity == <<"L","i","n","u","x"," ","n","e","t","w","o","r","k"," ","s","e","c","u","r","i","t","y">>

T_SalesAssociate == <<"S","a","l","e","s"," ","A","s","s","o","c","i","a","t","e">>

T_retail == <<"r","e","t","a","i","l">>

T_BackendDeveloper == <<"B","a","c","k","e","n","d"," ","D","e","v","e","l","o","p","e","r">>

T_backenddeveloper == <<"b","a","c","k","e","n","d"," ","d","e","v","e","l","o","p","e","r">>

T_SecurityEngineer == <<"S","e","c","u","r","i","t","y"," ","E","n","g","i","n","e","e","r">>

T_networksecurity == <<"n","e","t","w","o","r","k"," ","s","e","c","u","r","i","t","y">>

T_PythonScripting == <<"P","y","t","h","o","n"," ","s","c","r","i","p","t","i","n","g">>

T_webdev == <<"w","e","b"," ","d","e","v">>

T_Tunis == <<"T","u","n","i","s">>

T_Tunisie == <<"T","u","n","i","s","i","e">>

T_Sfax == <<"S","f","a","x">>

T_Paris == <<"P","a","r","i","s">>

T_Acme == <<"A","c","m","e">>

T_ACME == <<"A","C","M","E">>

T_Globex == <<"G","l","o","b","e","x">>

T_NA == <<"N","/","A">>

T_Amal == <<"A","m","a","l">>


T_Dev == <<"D","e","v">>

T_dev == <<"d","e","v">>

T_DEV == <<"D","E","V">>

T_Ops == <<"O","p","s">>

T_acme == <<"a","c","m","e">>

T_LinuxSQL == <<"L","i","n","u","x"," ","S","Q","L">>

T_PythonLinuxSQL == <<"P","y","t","h","o","n"," ","L","i","n","u","x"," ","S","Q","L">>

T_now == <<"2","0","2","6","-","0","1","-","0","1","T","0","0",":","0","0",":","0","0">>

(***************************************************************************)
(* Candidate profiles (the parsed CV JSON documents)                       *)
(***************************************************************************)
\* the profile of the ranking example: three skills, one domain, no title
CV_SEC ==
  [name |-> T_Amal,
   job_search_intent |-> [domains |-> <<T_cybersecurity>>],
   skills |-> [technical |-> <<T_Python, T_Linux, T_SQL>>]]

\* a full profile: title, a two-word domain, a location, a two-word skill
CV_NET ==
  [name |-> T_Amal,
   title |-> T_SecurityEngineer,
   job_search_intent |-> [domains |-> <<T_networksecurity>>,
                          location_preference |-> T_Tunis],
   skills |-> [technical |-> <<T_Linux, T_PythonScripting>>]]

\* a title only; the domain has no word longer than 4, no technical skills
CV_DEV ==
  [name |-> T_Amal,
   title |-> T_BackendDeveloper,
   job_search_intent |-> [domains |-> <<T_webdev>>],
   skills |-> [tools |-> <<T_Linux>>]]

\* every list empty, empty title
CV_EMPTY ==
  [name |-> T_Amal,
   title |-> <<>>,
   job_search_intent |-> [domains |-> <<>>],
   skills |-> [technical |-> <<>>]]

\* no optional field at all
CV_BARE == [name |-> T_Amal]

\* Python, "Python scripting", 18 skills no posting names, and Linux as the
\* 21st skill
ManySkills ==
  <<T_Python, T_PythonScripting>> \o [i \in 1..18 |-> [j \in 1..i |-> "0"]]
  \o <<T_Linux>>

CV_MANY ==
  [name |-> T_Amal,
   skills |-> [technical |-> ManySkills]]

Profiles == {CV_SEC, CV_NET, CV_DEV, CV_EMPTY, CV_BARE, CV_MANY}

T_SeniorTitle ==
  <<"S","e","n","i","o","r"," ","P","y","t","h","o","n"," ","a","n","d"," ",
    "L","i","n","u","x"," ","E","n","g","i","n","e","e","r">>

\* a title of five words, a two-word domain
CV_LONGTITLE ==
  [name |-> T_Amal,
   title |-> T_SeniorTitle,
   job_search_intent |-> [domains |-> <<T_networksecurity>>],
   skills |-> [technical |-> <<T_Python>>]]

\* no title, a first domain made of two blanks
CV_BLANKDOMAIN ==
  [name |-> T_Amal,
   job_search_intent |-> [domains |-> << <<" ", " ">>, T_cybersecurity >>],
   skills |-> [technical |-> <<T_Python>>]]

\* no title, an empty first domain, then a real one
CV_EMPTYDOMAIN ==
  [name |-> T_Amal,
   job_search_intent |-> [domains |-> << <<>>, T_cybersecurity >>],
   skills |-> [technical |-> <<T_Python, T_Linux>>]]

\* no title, no domain, an empty first skill
CV_EMPTYSKILL ==
  [name |-> T_Amal,
   job_search_intent |-> [domains |-> <<>>],
   skills |-> [technical |-> << <<>>, T_Linux >>]]

TermProfiles ==
  {CV_SEC, CV_NET, CV_DEV, CV_EMPTY, CV_BARE,
   CV_LONGTITLE, CV_BLANKDOMAIN, CV_EMPTYDOMAIN, CV_EMPTYSKILL}

(***************************************************************************)
(* Postings handed to the scorer on its own                                *)
(***************************************************************************)
\* the record rec restricted to the keys in keys
Restrict(rec, keys) == [k \in keys |-> rec[k]]

ScoreTitles == {<<>>, T_PythonSecurityEngineer, T_SalesAssociate, T_backenddeveloper}

ScoreDescriptions == {<<>>, T_LinuxNetworkSecurity, T_retail}

ScoreLocations == {T_Tunis, T_Paris}

\* every posting over the texts above, each optional key present or absent
ScoreJobs ==
  { Restrict([title |-> t, company |-> T_Acme, description |-> d,
              location |-> l, is_remote |-> r], keys) :
      t \in ScoreTitles, d \in ScoreDescriptions, l \in ScoreLocations,
      r \in BOOLEAN,
      keys \in { {"title", "company"} \cup opt :
                 opt \in SUBSET {"description", "location", "is_remote"} } }

(***************************************************************************)
(* Result reducer: the second half of scrape_and_match                     *)
(***************************************************************************)
\* a store of the score that also normalises the title
WithScore_retitled(job, value) ==
  ("match_score" :> value) @@ [job EXCEPT !.title = Lower(@)]

\* job['match_score'] = value
WithScore(job, value) == ("match_score" :> value) @@ job

\* the scorer treating min_score as a fraction of 100
PassesFilter_fraction(score, min_score) == ~RatLess(score, <<min_score, 100000>>)

\* score >= min_score, min_score in thousandths
PassesFilter(score, min_score) == ~RatLess(score, <<min_score, 1000>>)

\* the loop "for job in all_jobs": score, filter, store the rounded score
RECURSIVE MatchedJobs(_, _, _)
MatchedJobs(jobs, cv, min_score) ==
  IF Len(jobs) = 0 THEN <<>>
  ELSE LET job   == Head(jobs)
           score == calculate_match_score(job, cv)
       IN  (IF PassesFilter(score, min_score)
            THEN <<WithScore(job, Round2(score))>> ELSE <<>>)
           \o MatchedJobs(Tail(jobs), cv, min_score)

\* insertion that puts x before the entries of equal score
RECURSIVE InsertByScore_before(_, _)
InsertByScore_before(sorted, x) ==
  IF Len(sorted) = 0 THEN <<x>>
  ELSE IF Head(sorted).match_score > x.match_score
       THEN <<Head(sorted)>> \o InsertByScore_before(Tail(sorted), x)
       ELSE <<x>> \o sorted

\* x inserted into a list sorted by descending match_score, after every
\* entry whose score is at least its own
RECURSIVE InsertByScore(_, _)
InsertByScore(sorted, x) ==
  IF Len(sorted) = 0 THEN <<x>>
  ELSE IF Head(sorted).match_score >= x.match_score
       THEN <<Head(sorted)>> \o InsertByScore(Tail(sorted), x)
       ELSE <<x>> \o sorted

\* a reducer without line 582
SortByScore_unsorted(jobs) == jobs

\* matched_jobs.sort(key=match_score, reverse=True): list.sort is stable, and
\* with reverse=True equal entries keep their original order
RECURSIVE SortByScore(_)
SortByScore(jobs) ==
  IF Len(jobs) = 0 THEN <<>>
  ELSE InsertByScore(SortByScore(SubSeq(jobs, 1, Len(jobs) - 1)), jobs[Len(jobs)])

\* the key without lower-casing
JobKey_cased(job) == <<Get(job, "title", <<>>), Get(job, "company", <<>>)>>

\* (str(title).lower(), str(company).lower())
JobKey(job) == <<Lower(Get(job, "title", <<>>)), Lower(Get(job, "company", <<>>))>>

\* a loop that keeps every matched job
UniqueJobs_all(jobs, seen) == jobs

\* the loop over matched_jobs with the set "seen"
RECURSIVE UniqueJobs(_, _)
UniqueJobs(jobs, seen) ==
  IF Len(jobs) = 0 THEN <<>>
  ELSE LET key == JobKey(Head(jobs))
       IN  IF key \notin seen
           THEN <<Head(jobs)>> \o UniqueJobs(Tail(jobs), seen \cup {key})
           ELSE UniqueJobs(Tail(jobs), seen)

\* a slice that keeps one entry too many
SliceTo_inclusive(s, n) ==
  LET stop == IF n + 1 >= 0 THEN n + 1 ELSE Len(s) + n + 1
  IN  IF stop <= 0 THEN <<>>
      ELSE IF stop >= Len(s) THEN s ELSE SubSeq(s, 1, stop)

\* s[:n] as Python slices: a negative n counts from the end
SliceTo(s, n) ==
  LET stop == IF n >= 0 THEN n ELSE Len(s) + n
  IN  IF stop <= 0 THEN <<>>
      ELSE IF stop >= Len(s) THEN s ELSE SubSeq(s, 1, stop)

\* the reducer raising when nothing was collected
Reduce_raise(jobs, cv, min_score, max_results) ==
  IF Len(jobs) = 0 THEN [raised |-> "RuntimeError", jobs |-> <<>>]
  ELSE [raised |-> "None",
        jobs |-> SliceTo(UniqueJobs(SortByScore(MatchedJobs(jobs, cv, min_score)), {}),
                         max_results)]

\* lines 562-598: how scrape_and_match ends for the collected all_jobs: no
\* statement raises, and the list returned
Reduce(jobs, cv, min_score, max_results) ==
  IF Len(jobs) = 0 THEN [raised |-> "None", jobs |-> <<>>]
  ELSE [raised |-> "None",
        jobs |-> SliceTo(UniqueJobs(SortByScore(MatchedJobs(jobs, cv, min_score)), {}),
                         max_results)]

(***************************************************************************)
(* The search term                                                         *)
(***************************************************************************)
T_informatique == <<"i","n","f","o","r","m","a","t","i","q","u","e">>

\* extract_search_keywords (lines 86-103)
extract_search_keywords(cv) ==
  LET intent == Get(cv, "job_search_intent", <<>>)
      hasIntent == "job_search_intent" \in DOMAIN cv
      hasSkills == "skills" \in DOMAIN cv /\ "technical" \in DOMAIN cv.skills
  IN  [title    |-> Get(cv, "title", <<>>),
       domains  |-> IF hasIntent THEN Get(intent, "domains", <<>>) ELSE <<>>,
       skills   |-> IF hasSkills THEN Truncate(cv.skills.technical, 10) ELSE <<>>,
       location |-> IF hasIntent THEN Get(intent, "location_preference", <<>>)
                    ELSE <<>>]

\* build_search_term (lines 105-117): the term, or the exception that leaves
\* the function; domain.split()[0] raises IndexError when split() is empty
build_search_term(keywords) ==
  IF Truthy(keywords.title) /\ Len(Split(keywords.title)) <= 4
  THEN [raised |-> "None", term |-> keywords.title]
  ELSE IF Len(keywords.domains) > 0 /\ Truthy(keywords.domains[1])
  THEN LET words == Split(keywords.domains[1])
       IN  IF Len(words) = 0 THEN [raised |-> "IndexError", term |-> <<>>]
           ELSE [raised |-> "None", term |-> words[1]]
  ELSE IF Len(keywords.skills) > 0
  THEN [raised |-> "None", term |-> keywords.skills[1]]
  ELSE [raised |-> "None", term |-> T_informatique]

(***************************************************************************)
(* Collectors                                                              *)
(***************************************************************************)
\* the sources in the order scrape_and_match visits them; the names are the
\* values of the 'site' field
Collectors ==
  <<"Emploitunisie.com", "Tanitjobs", "Keejob",
    "LinkedIn", "Indeed USA", "Indeed France", "ZipRecruiter">>

TunisiaSites == {"Emploitunisie.com", "Tanitjobs", "Keejob"}

InternationalSites == {"LinkedIn", "Indeed USA", "Indeed France", "ZipRecruiter"}

CollectorSet == TunisiaSites \cup InternationalSites

\* position of a source in the visiting order
SiteRank(site) == CHOOSE i \in 1..Len(Collectors) : Collectors[i] = site

\* _parse_emploi_tn_job / _parse_tanitjobs_job / _parse_keejob_job: the
\* posting built from one job card; the location defaults to 'Tunisie'
ParseCard(site, card) ==
  [title       |-> card.title,
   company     |-> card.company,
   location    |-> IF Truthy(card.location) THEN card.location ELSE T_Tunisie,
   description |-> Truncate(card.description, 500),
   url         |-> <<>>,
   site        |-> site,
   date_posted |-> <<>>,
   scraped_at  |-> T_now]

\* the loop over the cards of a page: "if job: jobs.append(job)", where the
\* parser returns None for a card without title
RECURSIVE ParseCards(_, _)
ParseCards(site, cards) ==
  IF Len(cards) = 0 THEN <<>>
  ELSE (IF Truthy(Head(cards).title) THEN <<ParseCard(site, Head(cards))>> ELSE <<>>)
       \o ParseCards(site, Tail(cards))

\* _convert_jobspy_to_dict, one row
ConvertRow(site, row) ==
  [title       |-> Get(row, "title", T_NA),
   company     |-> Get(row, "company", T_NA),
   location    |-> Get(row, "location", T_NA),
   description |-> Truncate(Get(row, "description", <<>>), 5000),
   url         |-> Get(row, "job_url", <<>>),
   site        |-> site,
   date_posted |-> Get(row, "date_posted", <<>>),
   is_remote   |-> Get(row, "is_remote", FALSE),
   scraped_at  |-> T_now]

\* _convert_jobspy_to_dict
RECURSIVE ConvertRows(_, _)
ConvertRows(site, rows) ==
  IF Len(rows) = 0 THEN <<>>
  ELSE <<ConvertRow(site, Head(rows))>> \o ConvertRows(site, Tail(rows))

\* what one source contributes: nothing when its fetch raises (the except
\* clause of the scraper), else the postings of at most 30 cards, or the
\* converted rows of the aggregator's answer
Fetched(site, listing, fails) ==
  IF fails THEN <<>>
  ELSE IF site \in TunisiaSites
       THEN ParseCards(site, Truncate(listing, 30))
       ELSE ConvertRows(site, listing)

\* a scraper without its own try/except: the error reaches the except
\* clause of scrape_and_match and the remaining local sites are not visited
AfterTunisiaSite_abort(site, fails, jobspy) ==
  IF fails THEN (IF jobspy THEN "LinkedIn" ELSE "cleanup")
  ELSE IF site = "Emploitunisie.com" THEN "Tanitjobs"
  ELSE IF site = "Tanitjobs" THEN "Keejob"
  ELSE IF jobspy THEN "LinkedIn" ELSE "cleanup"

\* where scrape_and_match continues after a local-site scraper returned
AfterTunisiaSite(site, fails, jobspy) ==
  IF site = "Emploitunisie.com" THEN "Tanitjobs"
  ELSE IF site = "Tanitjobs" THEN "Keejob"
  ELSE IF jobspy THEN "LinkedIn" ELSE "cleanup"

\* scrape_international_jobs returning before its last sub-search
AfterInternationalSite_early(site) ==
  IF site = "LinkedIn" THEN "Indeed USA"
  ELSE IF site = "Indeed USA" THEN "Indeed France"
  ELSE "cleanup"

\* where scrape_international_jobs continues after one sub-search
AfterInternationalSite(site) ==
  IF site = "LinkedIn" THEN "Indeed USA"
  ELSE IF site = "Indeed USA" THEN "Indeed France"
  ELSE IF site = "Indeed France" THEN "ZipRecruiter"
  ELSE "cleanup"

(***************************************************************************)
(* What the sources hold                                                   *)
(***************************************************************************)
\* a card of a local site; no location pattern on it, so 'Tunisie'
CardDev ==
  [title |-> T_Dev, company |-> T_Acme, location |-> <<>>, description |-> T_LinuxSQL]

\* a card located in Sfax with an empty description
CardOps ==
  [title |-> T_Ops, company |-> T_Acme, location |-> T_Sfax, description |-> <<>>]

\* a card whose title link is missing
CardUntitled ==
  [title |-> <<>>, company |-> T_Globex, location |-> T_Tunis, description |-> T_LinuxSQL]

Cards == {CardDev, CardOps}

\* the same job as CardDev under another spelling, abroad, not remote
RowDev ==
  [title |-> T_dev, company |-> T_ACME, location |-> T_Paris,
   description |-> T_LinuxSQL, is_remote |-> FALSE]

\* the same job again, remote and with a richer description
RowDevRemote ==
  [title |-> T_DEV, company |-> T_acme, location |-> T_Paris,
   description |-> T_PythonLinuxSQL, is_remote |-> TRUE]

\* another job, in Tunis, the is_remote column missing
RowOps ==
  [title |-> T_Ops, company |-> T_Globex, location |-> T_Tunis,
   description |-> T_LinuxSQL]

Rows == {RowDev, RowDevRemote, RowOps}

\* a row of the aggregator whose title cell is the empty string
RowUntitled ==
  [title |-> <<>>, company |-> T_Globex, location |-> T_Tunis,
   description |-> T_PythonLinuxSQL, is_remote |-> TRUE]

\* most postings the sources hold together for one search
MaxTotal == 2

\* the items a source can hold
ItemsOf(site, cards, rows) == IF site \in TunisiaSites THEN cards ELSE rows

\* the <<site, item>> sequences of length at most n, sources in visiting order
Listings(sites, cards, rows, n) ==
  LET Pairs == UNION { {<<c, x>> : x \in ItemsOf(c, cards, rows)} : c \in sites }
  IN  { l \in UNION { [1..k -> Pairs] : k \in 0..n } :
          \A i \in 1..(Len(l) - 1) : SiteRank(l[i][1]) <= SiteRank(l[i + 1][1]) }

\* what each source holds, given such a sequence
RECURSIVE ItemsAt(_, _)
ItemsAt(l, site) ==
  IF Len(l) = 0 THEN <<>>
  ELSE (IF Head(l)[1] = site THEN <<Head(l)[2]>> ELSE <<>>) \o ItemsAt(Tail(l), site)

WebOf(l) == [c \in CollectorSet |-> ItemsAt(l, c)]

\* every source holds nothing
EmptyWeb == [c \in CollectorSet |-> <<>>]

\* every source holds one item with a title; two also hold one without
FullWeb ==
  [c \in CollectorSet |->
     IF c = "Emploitunisie.com" THEN <<CardDev>>
     ELSE IF c = "Tanitjobs" THEN <<CardUntitled, CardOps>>
     ELSE IF c = "Keejob" THEN <<CardDev>>
     ELSE IF c = "LinkedIn" THEN <<RowDev>>
     ELSE IF c = "Indeed USA" THEN <<RowDevRemote>>
     ELSE IF c = "Indeed France" THEN <<RowOps>>
     ELSE <<RowUntitled, RowDev>>]

(***************************************************************************)
(* The ranking example: postings A and B for the profile CV_SEC            *)
(***************************************************************************)
\* posting A on a local site, no location pattern on the card
CardA ==
  [title |-> T_PythonSecurityEngineer, company |-> T_Acme, location |-> <<>>,
   description |-> T_LinuxNetworkSecurity]

\* posting B on a local site, located in Tunis
CardB ==
  [title |-> T_SalesAssociate, company |-> T_Globex, location |-> T_Tunis,
   description |-> T_retail]

\* posting A from the aggregator, abroad and not remote
RowA ==
  [title |-> T_PythonSecurityEngineer, company |-> T_Acme, location |-> T_Paris,
   description |-> T_LinuxNetworkSecurity, is_remote |-> FALSE]

\* posting B from the aggregator, in Tunis and remote
RowB ==
  [title |-> T_SalesAssociate, company |-> T_Globex, location |-> T_Tunis,
   description |-> T_retail, is_remote |-> TRUE]

(***************************************************************************)
(* A profile with 13 domain keywords and 20 skills, and two postings of    *)
(* one job whose scores differ by 5/520                                    *)
(***************************************************************************)
\* the character c repeated n times
Rep(c, n) == [i \in 1..n |-> c]

\* one one-word domain per letter a..m
BigDomains == [i \in 1..13 |-> Rep(LowerAlphabet[i], 5)]

\* 14 one-letter skills, one two-word skill, five more one-letter skills
BigSkills ==
  [i \in 1..13 |-> <<LowerAlphabet[13 + i]>>]
  \o << <<"0">>, <<"1"," ","2","2","2","2">>,
        <<"3">>, <<"4">>, <<"5">>, <<"6">>, <<"7">> >>

CV_BIG ==
  [name |-> T_Amal,
   job_search_intent |-> [domains |-> BigDomains],
   skills |-> [technical |-> BigSkills]]

T_Lead == <<"L","e","a","d">>

T_lead == <<"l","e","a","d">>

\* names 14 skills in full and one word of the two-word skill: 10 + 35 * 29/40
RowLeadSkills ==
  [title |-> T_Lead, company |-> T_Acme, location |-> T_Paris,
   description |-> Join(SubSeq(BigSkills, 1, 14) \o <<Rep("2", 4)>>),
   is_remote |-> FALSE]

\* names 11 of the 13 domain keywords: 10 + 30 * 11/13
RowLeadDomains ==
  [title |-> T_lead, company |-> T_ACME, location |-> T_Paris,
   description |-> Join(SubSeq(BigDomains, 1, 11)),
   is_remote |-> FALSE]

(***************************************************************************)
(* State                                                                   *)
(***************************************************************************)
\* None, for the variables that hold a name
None == "None"

\* None, for the variables that hold a record or a list
Unset == <<>>

\* the file at cv_json_path
ValidFile(profile) == [state |-> "valid", json |-> profile]

MissingFile == [state |-> "missing"]

InvalidFile == [state |-> "invalid"]

VARIABLES
  arg_job,            \* calculate_match_score called on its own: the posting
  arg_cv,             \* ... the profile
  ret_score,          \* ... the value returned, None before the call
  score_log,          \* ... the calls that returned so far: job, cv, score
  SELENIUM_AVAILABLE, \* module-level flag
  JOBSPY_AVAILABLE,   \* module-level flag
  chrome,             \* how starting the browser ends: "ok", "no_browser"
                      \* (webdriver.Chrome raises) or "script_error"
                      \* (execute_script raises after self.driver was set)
  caller,             \* "main" (command line), "app" (Search Jobs page), "direct"
  cv_file,            \* the file at cv_json_path: valid JSON, missing or invalid
  min_score,          \* argument of scrape_and_match, in thousandths
  max_results,        \* argument of scrape_and_match
  web,                \* what each source holds for the search
  faults,             \* the sources whose fetch raises
  stalls,             \* the sources whose fetch never responds
  pc,                 \* where the caller / scrape_and_match stands
  sam,                \* scrape_and_match: "idle", "running", "returned" or "raised"
  scraper,            \* the caller's variable: None or the instance
  driver,             \* self.driver: None or the WebDriver object
  quit_calls,         \* number of calls of driver.quit()
  cv_data,            \* the loaded profile
  search_term,        \* search_term of scrape_and_match, None before line 525
  runs,               \* searches started again in this process
  closed_gets,        \* local sites asked through a session that was quit
  session_cv_data,    \* st.session_state.cv_data (app.py lines 123-133)
  jobs_data,          \* st.session_state.jobs_data, <<>> while it is None
  selected_job,       \* st.session_state.selected_job
  parsing_complete,   \* st.session_state.parsing_complete
  scraping_complete,  \* st.session_state.scraping_complete
  jobs_cv,            \* the profile jobs_data was computed from
  intl_jobs,          \* all_jobs local to scrape_international_jobs
  all_jobs,           \* all_jobs of scrape_and_match
  fetches,            \* the sources a fetch was issued on (driver.get, scrape_jobs)
  result,             \* the list returned by scrape_and_match, once sam = "returned"
  raised              \* the exception that left the constructor or scrape_and_match

vars ==
  <<arg_job, arg_cv, ret_score, score_log, SELENIUM_AVAILABLE, JOBSPY_AVAILABLE,
    chrome, caller, cv_file, min_score, max_results, web, faults, stalls, pc, sam,
    scraper, driver, quit_calls, cv_data, search_term, intl_jobs, all_jobs,
    fetches, result, raised, runs, closed_gets, session_cv_data, jobs_data,
    selected_job, parsing_complete, scraping_complete, jobs_cv>>

scorerVars == <<arg_job, arg_cv, ret_score, score_log>>

envVars ==
  <<JOBSPY_AVAILABLE, chrome, caller, cv_file, min_score, max_results, web, faults,
    stalls>>

\* the state before the caller constructs the scraper
processVars == <<runs, closed_gets>>

sessionVars ==
  <<session_cv_data, jobs_data, selected_job, parsing_complete,
    scraping_complete, jobs_cv>>

\* None as the value of a field (JSON null, or an empty cell of the
\* aggregator's table) or of a name that otherwise holds a text; every text
\* is a sequence of characters, this is not
Null == <<"None">>

\* the session state of a new browser session (app.py lines 123-133)
NewSession ==
  /\ session_cv_data = Unset
  /\ jobs_data = <<>>
  /\ selected_job = Unset
  /\ parsing_complete = FALSE
  /\ scraping_complete = FALSE
  /\ jobs_cv = Unset

Fresh ==
  /\ pc = "start"
  /\ search_term = Null
  /\ runs = 0
  /\ closed_gets = {}
  /\ sam = "idle"
  /\ scraper = None
  /\ driver = None
  /\ quit_calls = 0
  /\ cv_data = Unset
  /\ intl_jobs = <<>>
  /\ all_jobs = <<>>
  /\ fetches = {}
  /\ result = <<>>
  /\ raised = None

(***************************************************************************)
(* The scorer called on its own                                            *)
(***************************************************************************)
\* rows of the aggregator whose location, or whose title, is None
JobNullLocation ==
  [title |-> T_PythonSecurityEngineer, company |-> T_Acme,
   description |-> T_LinuxNetworkSecurity, location |-> Null]

JobNullTitle ==
  [title |-> Null, company |-> T_Acme, description |-> T_retail, location |-> T_Tunis]

NullJobs == {JobNullLocation, JobNullTitle}

\* the posting scored between two calls on another posting
JobOther ==
  [title |-> T_PythonSecurityEngineer, company |-> T_Globex,
   description |-> T_LinuxNetworkSecurity, location |-> T_Tunis]

\* most calls of the scorer in a row
MaxCalls == 3

\* .lower() applied to None: job.get('location', '') on line 480,
\* cv_data.get('title', '') on line 484, job.get('title', '') on line 485;
\* the default of get() is used only when the key is absent
ScorerRaises(job, cv) ==
  \/ Get(job, "location", <<>>) = Null
  \/ Get(cv, "title", <<>>) = Null
  \/ Get(job, "title", <<>>) = Null

InitScore ==
  /\ arg_job \in ScoreJobs \cup NullJobs
  /\ arg_cv \in Profiles
  /\ ret_score = Unset
  /\ score_log = <<>>
  /\ SELENIUM_AVAILABLE = TRUE
  /\ JOBSPY_AVAILABLE = TRUE
  /\ chrome = "ok"
  /\ caller = "direct"
  /\ cv_file = MissingFile
  /\ min_score = 15000
  /\ max_results = 50
  /\ web = EmptyWeb
  /\ faults = {}
  /\ stalls = {}
  /\ Fresh
  /\ NewSession

\* a scorer that remembers the best score it returned
CallScore_memo ==
  /\ arg_job # Unset
  /\ raised = None
  /\ Len(score_log) < MaxCalls
  /\ IF ScorerRaises(arg_job, arg_cv)
     THEN /\ raised' = "AttributeError"
          /\ UNCHANGED <<arg_job, ret_score, score_log>>
     ELSE LET score == calculate_match_score(arg_job, arg_cv)
              best  == IF ret_score # Unset /\ RatLess(score, ret_score)
                       THEN ret_score ELSE score
          IN  /\ raised' = raised
              /\ ret_score' = best
              /\ score_log' = Append(score_log,
                                     [job |-> arg_job, cv |-> arg_cv, score |-> best])
              /\ arg_job' \in {score_log'[1].job, JobOther}
  /\ UNCHANGED <<arg_cv, envVars, search_term, processVars, sessionVars,
                 SELENIUM_AVAILABLE, pc, sam, scraper, driver, quit_calls,
                 cv_data, intl_jobs, all_jobs, fetches, result>>

\* one call of calculate_match_score: it raises, or it returns a score; the
\* caller then calls again, on the first posting or on another one
CallScore ==
  /\ arg_job # Unset
  /\ raised = None
  /\ Len(score_log) < MaxCalls
  /\ IF ScorerRaises(arg_job, arg_cv)
     THEN /\ raised' = "AttributeError"
          /\ UNCHANGED <<arg_job, ret_score, score_log>>
     ELSE LET score == calculate_match_score(arg_job, arg_cv)
          IN  /\ raised' = raised
              /\ ret_score' = score
              /\ score_log' = Append(score_log,
                                     [job |-> arg_job, cv |-> arg_cv, score |-> score])
              /\ arg_job' \in {score_log'[1].job, JobOther}
  /\ UNCHANGED <<arg_cv, envVars, search_term, processVars, sessionVars,
                 SELENIUM_AVAILABLE, pc, sam, scraper, driver, quit_calls,
                 cv_data, intl_jobs, all_jobs, fetches, result>>

NextScore == CallScore

SpecScore == InitScore /\ [][NextScore]_vars

\* C1: every score the scorer returns lies between 0 and 100
ScoreInRange ==
  ret_score # Unset =>
    /\ ~RatLess(ret_score, <<0, 1>>)
    /\ ~RatLess(<<100, 1>>, ret_score)

\* a call returned a score above 90: every signal contributed
ScoreHighReturned == ret_score # Unset /\ RatLess(<<90, 1>>, ret_score)

NoDomains(cv) ==
  \/ "job_search_intent" \notin DOMAIN cv
  \/ "domains" \notin DOMAIN cv.job_search_intent
  \/ DomainKeywords(cv.job_search_intent.domains) = <<>>

\* the profile names no technical skill
NoSkills(cv) ==
  \/ "skills" \notin DOMAIN cv
  \/ "technical" \notin DOMAIN cv.skills
  \/ cv.skills.technical = <<>>

\* the profile has no title
NoTitle(cv) == Get(cv, "title", <<>>) = <<>>

\* the posting says neither where the job is nor that it is remote
NoLocation(job) == "location" \notin DOMAIN job /\ "is_remote" \notin DOMAIN job

\* the sum of the signals whose fields are there
PresentSignals(job, cv) ==
  LET zero == <<0, 1>>
      job_text == JobText(job)
  IN  RatAdd(RatAdd(RatAdd(RatAdd(PresenceSignal(job),
                                  IF NoDomains(cv) THEN zero
                                  ELSE DomainSignal(job_text, cv)),
                           IF NoSkills(cv) THEN zero ELSE SkillSignal(job_text, cv)),
                    IF NoLocation(job) THEN zero ELSE LocationSignal(job)),
             IF NoTitle(cv) THEN zero ELSE TitleSignal(job, cv))

\* C18: on postings and profiles with missing or empty fields the scorer
\* never raises, and the signal of a missing field contributes 0
ScorerTotalOnIncomplete ==
  /\ raised = None
  /\ \A i \in 1..Len(score_log) :
       RatEq(score_log[i].score,
             RatMin(PresentSignals(score_log[i].job, score_log[i].cv), <<100, 1>>))

(***************************************************************************)
(* The pipeline: constructor, scrape_and_match, cleanup and the callers    *)
(***************************************************************************)
\* <<min_score in thousandths, max_results>>: the defaults, two higher
\* thresholds, a cap of one and a negative cap
Requests ==
  {<<15000, 50>>, <<33333, 50>>, <<50000, 50>>, <<15000, 1>>, <<15000, -1>>}

\* the requests made with the profile of the ranking example: every source
\* may hold any items, MaxTotal in all; thresholds and caps vary
InitReduce ==
  /\ SELENIUM_AVAILABLE = TRUE
  /\ JOBSPY_AVAILABLE = TRUE
  /\ chrome = "ok"
  /\ caller = "direct"
  /\ cv_file = ValidFile(CV_SEC)
  /\ \E r \in Requests : min_score = r[1] /\ max_results = r[2]
  /\ web \in {WebOf(l) : l \in Listings(CollectorSet, Cards, Rows, MaxTotal)}
  /\ faults = {}
  /\ stalls = {}

\* the requests made with the large profile
InitRounding ==
  /\ SELENIUM_AVAILABLE = TRUE
  /\ JOBSPY_AVAILABLE = TRUE
  /\ chrome = "ok"
  /\ caller = "direct"
  /\ cv_file = ValidFile(CV_BIG)
  /\ min_score = 15000
  /\ max_results = 50
  /\ web \in {WebOf(l) : l \in Listings({"LinkedIn", "Indeed USA"}, {},
                                        {RowLeadSkills, RowLeadDomains}, 2)}
  /\ faults = {}
  /\ stalls = {}

\* the ranking example: A and B on a local site and on two aggregator
\* markets, in either order, with the lowest threshold of the page's slider
\* and the default one
InitExample ==
  /\ SELENIUM_AVAILABLE = TRUE
  /\ JOBSPY_AVAILABLE = TRUE
  /\ chrome = "ok"
  /\ caller = "direct"
  /\ cv_file = ValidFile(CV_SEC)
  /\ min_score \in {10000, 15000}
  /\ max_results = 50
  /\ web \in {WebOf(l) : l \in Listings({"Keejob", "LinkedIn", "ZipRecruiter"},
                                        {CardA, CardB}, {RowA, RowB}, 2)}
  /\ faults = {}
  /\ stalls = {}

\* every caller, every availability of the two libraries, a good, missing or
\* broken profile file, and any set of sources failing, or one source that
\* never responds
InitFaults ==
  /\ SELENIUM_AVAILABLE \in BOOLEAN
  /\ JOBSPY_AVAILABLE \in BOOLEAN
  /\ chrome \in {"ok", "no_browser", "script_error"}
  /\ SELENIUM_AVAILABLE \/ chrome = "ok"
  /\ caller \in {"main", "app", "direct"}
  /\ cv_file \in {ValidFile(CV_NET), MissingFile, InvalidFile}
  /\ min_score = 15000
  /\ max_results = 50
  /\ web \in {EmptyWeb, FullWeb}
  /\ faults \in SUBSET CollectorSet
  /\ stalls \in {{}} \cup {{c} : c \in CollectorSet}
  /\ stalls # {} => faults = {}

\* every profile shape the search term is built from, with no posting on
\* any source
InitTerm ==
  /\ SELENIUM_AVAILABLE = TRUE
  /\ JOBSPY_AVAILABLE = TRUE
  /\ chrome = "ok"
  /\ caller \in {"app", "direct"}
  /\ cv_file \in {ValidFile(cv) : cv \in TermProfiles}
  /\ min_score = 15000
  /\ max_results = 50
  /\ web = EmptyWeb
  /\ faults = {}
  /\ stalls = {}

\* the session state when Search Jobs is clicked: the page is usable only
\* once a CV was parsed (app.py lines 272-274), and the click saves the
\* session's profile to the file the scraper loads (line 297)
ParsedSession ==
  /\ session_cv_data = IF caller = "app" /\ cv_file.state = "valid"
                       THEN cv_file.json ELSE Unset
  /\ parsing_complete = (caller = "app" /\ cv_file.state = "valid")
  /\ jobs_data = <<>>
  /\ selected_job = Unset
  /\ scraping_complete = FALSE
  /\ jobs_cv = Unset

Init ==
  /\ arg_job = Unset
  /\ arg_cv = Unset
  /\ ret_score = Unset
  /\ score_log = <<>>
  /\ Fresh
  /\ (InitReduce \/ InitRounding \/ InitExample \/ InitFaults \/ InitTerm)
  /\ ParsedSession

\* cleanup(): quits the driver when self.driver is set; never raises
CleanupQuits == IF driver # None THEN quit_calls + 1 ELSE quit_calls

\* an except clause (lines 65-68) that leaves the flag as it was
SeleniumAfterInit_kept(available, outcome) == available

\* SELENIUM_AVAILABLE once the constructor ran: cleared by the except clause
\* (lines 65-68) when starting the browser raised
SeleniumAfterInit(available, outcome) == available /\ outcome = "ok"

\* a constructor that starts the browser whatever the flag says
DriverAfterInit_retry(available, outcome) ==
  IF outcome # "no_browser" THEN "WebDriver" ELSE None

\* self.driver once the constructor ran (lines 47-62): set by
\* webdriver.Chrome under "if SELENIUM_AVAILABLE", and kept when
\* execute_script raises afterwards
DriverAfterInit(available, outcome) ==
  IF available /\ outcome # "no_browser" THEN "WebDriver" ELSE None

\* a constructor without lines 73-74
UnifiedJobScraper_init_lenient ==
  /\ pc = "start"
  /\ driver' = DriverAfterInit(SELENIUM_AVAILABLE, chrome)
  /\ SELENIUM_AVAILABLE' = SeleniumAfterInit(SELENIUM_AVAILABLE, chrome)
  /\ raised' = None
  /\ pc' = "load"
  /\ scraper' = "UnifiedJobScraper"
  /\ UNCHANGED <<scorerVars, envVars, search_term, processVars, sessionVars, fetches, sam, quit_calls, cv_data, intl_jobs,
                 all_jobs, result>>

\* __init__ (lines 41-74)
UnifiedJobScraper_init ==
  /\ pc = "start"
  /\ driver' = DriverAfterInit(SELENIUM_AVAILABLE, chrome)
  /\ SELENIUM_AVAILABLE' = SeleniumAfterInit(SELENIUM_AVAILABLE, chrome)
  /\ IF ~SELENIUM_AVAILABLE' /\ ~JOBSPY_AVAILABLE
     THEN /\ raised' = "RuntimeError"
          /\ pc' = "except"
          /\ scraper' = None
     ELSE /\ raised' = None
          /\ pc' = "load"
          /\ scraper' = "UnifiedJobScraper"
  /\ UNCHANGED <<scorerVars, envVars, search_term, processVars, sessionVars, fetches, sam, quit_calls, cv_data, intl_jobs,
                 all_jobs, result>>

\* a loader that answers an unreadable file with a profile that has no
\* optional field
load_cv_profile_default ==
  /\ pc = "load"
  /\ raised' = raised
  /\ sam' = "running"
  /\ cv_data' = IF cv_file.state = "valid" THEN cv_file.json ELSE CV_BARE
  /\ search_term' = build_search_term(extract_search_keywords(cv_data')).term
  /\ pc' = IF SELENIUM_AVAILABLE /\ driver # None THEN "Emploitunisie.com"
           ELSE IF JOBSPY_AVAILABLE THEN "LinkedIn"
           ELSE "cleanup"
  /\ UNCHANGED <<scorerVars, envVars, processVars, sessionVars, fetches, SELENIUM_AVAILABLE, scraper, driver,
                 quit_calls, intl_jobs, all_jobs, result>>

\* scrape_and_match, lines 513-532: load the profile, then enter the first
\* enabled group of sources
load_cv_profile ==
  /\ pc = "load"
  /\ IF cv_file.state # "valid"
     THEN /\ raised' = IF cv_file.state = "missing" THEN "FileNotFoundError"
                       ELSE "ValueError"
          /\ sam' = "raised"
          /\ pc' = "except"
          /\ cv_data' = cv_data
          /\ search_term' = search_term
     ELSE LET built == build_search_term(extract_search_keywords(cv_file.json))
          IN  IF built.raised # None
              THEN \* lines 520-525 are under no try: the exception leaves
                   \* scrape_and_match and its frame
                   /\ raised' = built.raised
                   /\ sam' = "raised"
                   /\ pc' = "except"
                   /\ cv_data' = cv_data
                   /\ search_term' = search_term
              ELSE /\ raised' = raised
                   /\ sam' = "running"
                   /\ cv_data' = cv_file.json
                   /\ search_term' = built.term
                   /\ pc' = IF SELENIUM_AVAILABLE /\ driver # None
                            THEN "Emploitunisie.com"
                            ELSE IF JOBSPY_AVAILABLE THEN "LinkedIn"
                            ELSE "cleanup"
  /\ UNCHANGED <<scorerVars, envVars, processVars, sessionVars, fetches, SELENIUM_AVAILABLE, scraper, driver,
                 quit_calls, intl_jobs, all_jobs, result>>

\* the fetch on this source ends in an exception: the server's answer makes
\* the library raise, or the fetch never responds and the library gives up
FetchRaises(site) == site \in faults \/ site \in stalls

\* the browser session of this instance was ended by driver.quit(); a
\* request on it raises, inside the try of the scraper
SessionClosed == quit_calls > 0

\* the guard of the three local-site scrapers (lines 125, 197, 266):
\* "if not SELENIUM_AVAILABLE or not self.driver: return []"
SkipsDriver(available, drv) == ~available \/ drv = None

\* one local-site scraper called from lines 537-539
ScrapeTunisiaSite(site) ==
  /\ pc = site
  /\ all_jobs' = all_jobs \o
       (IF SkipsDriver(SELENIUM_AVAILABLE, driver) THEN <<>>
        ELSE Fetched(site, web[site], FetchRaises(site) \/ SessionClosed))
  /\ fetches' = IF SkipsDriver(SELENIUM_AVAILABLE, driver) THEN fetches
                ELSE fetches \cup {site}
  /\ closed_gets' = IF SkipsDriver(SELENIUM_AVAILABLE, driver) \/ ~SessionClosed
                    THEN closed_gets ELSE closed_gets \cup {site}
  /\ pc' = AfterTunisiaSite(site, FetchRaises(site), JOBSPY_AVAILABLE)
  /\ UNCHANGED <<scorerVars, envVars, search_term, runs, sessionVars, sam,
                 SELENIUM_AVAILABLE, scraper, driver,
                 quit_calls, cv_data, intl_jobs, result, raised>>

scrape_emploi_tn == ScrapeTunisiaSite("Emploitunisie.com")

scrape_tanitjobs == ScrapeTunisiaSite("Tanitjobs")

scrape_keejob == ScrapeTunisiaSite("Keejob")

\* the four sub-searches under one try: the first failure leaves
\* scrape_international_jobs, and the except clause of scrape_and_match
\* (lines 556-557) goes on without its postings
ScrapeInternationalSite_abort(site) ==
  /\ pc = site
  /\ LET found == intl_jobs \o Fetched(site, web[site], FetchRaises(site))
     IN  IF FetchRaises(site)
         THEN /\ all_jobs' = all_jobs
              /\ intl_jobs' = <<>>
         ELSE IF site = "ZipRecruiter"
         THEN /\ all_jobs' = all_jobs \o found
              /\ intl_jobs' = <<>>
         ELSE /\ intl_jobs' = found
              /\ all_jobs' = all_jobs
  /\ fetches' = fetches \cup {site}
  /\ pc' = IF FetchRaises(site) THEN "cleanup" ELSE AfterInternationalSite(site)
  /\ UNCHANGED <<scorerVars, envVars, search_term, processVars, sessionVars, sam, SELENIUM_AVAILABLE, scraper, driver,
                 quit_calls, cv_data, result, raised>>

\* one sub-search of scrape_international_jobs; after the last one the
\* function returns and line 555 extends all_jobs
ScrapeInternationalSite(site) ==
  /\ pc = site
  /\ LET found == intl_jobs \o Fetched(site, web[site], FetchRaises(site))
     IN  IF site = "ZipRecruiter"
         THEN /\ all_jobs' = all_jobs \o found
              /\ intl_jobs' = <<>>
         ELSE /\ intl_jobs' = found
              /\ all_jobs' = all_jobs
  /\ fetches' = fetches \cup {site}
  /\ pc' = AfterInternationalSite(site)
  /\ UNCHANGED <<scorerVars, envVars, search_term, processVars, sessionVars, sam, SELENIUM_AVAILABLE, scraper, driver,
                 quit_calls, cv_data, result, raised>>

scrape_linkedin == ScrapeInternationalSite("LinkedIn")

scrape_indeed_usa == ScrapeInternationalSite("Indeed USA")

scrape_indeed_france == ScrapeInternationalSite("Indeed France")

scrape_ziprecruiter == ScrapeInternationalSite("ZipRecruiter")

\* line 560: self.cleanup()
cleanup ==
  /\ pc = "cleanup"
  /\ quit_calls' = CleanupQuits
  /\ pc' = "reduce"
  /\ UNCHANGED <<scorerVars, envVars, search_term, processVars, sessionVars, fetches, sam, SELENIUM_AVAILABLE, scraper, driver,
                 cv_data, intl_jobs, all_jobs, result, raised>>

\* lines 562-598: score, filter, sort, remove duplicates, truncate, return
score_and_reduce ==
  /\ pc = "reduce"
  /\ LET outcome == Reduce(all_jobs, cv_data, min_score, max_results)
     IN  /\ raised' = outcome.raised
         /\ result' = outcome.jobs
         /\ sam' = IF outcome.raised = None THEN "returned" ELSE "raised"
         /\ pc' = IF outcome.raised = None THEN "returned" ELSE "except"
  /\ UNCHANGED <<scorerVars, envVars, search_term, processVars, sessionVars, fetches, SELENIUM_AVAILABLE, scraper, driver,
                 quit_calls, cv_data, intl_jobs, all_jobs>>

\* where a KeyboardInterrupt can reach scrape_and_match
Running == {"load", "cleanup", "reduce"} \cup CollectorSet

\* Ctrl-C on the command line: not an Exception, so main's except clause is
\* skipped and its finally clause runs
KeyboardInterrupt ==
  /\ caller = "main"
  /\ pc \in Running
  /\ raised' = "KeyboardInterrupt"
  /\ sam' = "raised"
  /\ pc' = "interrupted"
  /\ UNCHANGED <<scorerVars, envVars, search_term, processVars, sessionVars, fetches, SELENIUM_AVAILABLE, scraper, driver,
                 quit_calls, cv_data, intl_jobs, all_jobs, result>>

\* main of mixed_scraper.py after the try body ended in any way: report or
\* print the error, then "finally: if scraper: scraper.cleanup()"
main_finally ==
  /\ caller = "main"
  /\ pc \in {"returned", "except", "interrupted"}
  /\ quit_calls' = IF scraper # None THEN CleanupQuits ELSE quit_calls
  /\ pc' = "done"
  /\ UNCHANGED <<scorerVars, envVars, search_term, processVars, sessionVars, fetches, sam, SELENIUM_AVAILABLE, scraper, driver,
                 cv_data, intl_jobs, all_jobs, result, raised>>

\* the Search Jobs page after scrape_and_match returned: store and save the
\* jobs, then scraper.cleanup() (app.py line 312)
app_store_results ==
  /\ caller = "app"
  /\ pc = "returned"
  /\ jobs_data' = result
  /\ scraping_complete' = TRUE
  /\ jobs_cv' = cv_data
  /\ quit_calls' = CleanupQuits
  /\ pc' = "done"
  /\ UNCHANGED <<scorerVars, envVars, search_term, processVars, session_cv_data,
                 selected_job, parsing_complete, fetches, sam, SELENIUM_AVAILABLE, scraper, driver,
                 cv_data, intl_jobs, all_jobs, result, raised>>

\* the Search Jobs page's except clause (app.py lines 317-319): the error is
\* shown, nothing else is done
app_show_error ==
  /\ caller = "app"
  /\ pc = "except"
  /\ pc' = "done"
  /\ UNCHANGED <<scorerVars, envVars, search_term, processVars, sessionVars, fetches, sam, SELENIUM_AVAILABLE, scraper, driver,
                 quit_calls, cv_data, intl_jobs, all_jobs, result, raised>>

Next ==
  \/ UnifiedJobScraper_init
  \/ load_cv_profile
  \/ scrape_emploi_tn
  \/ scrape_tanitjobs
  \/ scrape_keejob
  \/ scrape_linkedin
  \/ scrape_indeed_usa
  \/ scrape_indeed_france
  \/ scrape_ziprecruiter
  \/ cleanup
  \/ score_and_reduce
  \/ KeyboardInterrupt
  \/ main_finally
  \/ app_store_results
  \/ app_show_error

Spec == Init /\ [][Next]_vars

\* a fetch that never responds is pending: the code sets no timeout on
\* driver.get (lines 133, 203, 272) or scrape_jobs (lines 354-405), so the
\* call returns only if the library gives up on its own
Pending ==
  /\ pc \in stalls
  /\ pc \in TunisiaSites => (SELENIUM_AVAILABLE /\ driver # None)

\* the steps the program takes by itself: every statement that is reached
\* runs, except a pending fetch; Ctrl-C is the user's
Progress ==
  /\ ~Pending
  /\ \/ UnifiedJobScraper_init
     \/ load_cv_profile
     \/ scrape_emploi_tn
     \/ scrape_tanitjobs
     \/ scrape_keejob
     \/ scrape_linkedin
     \/ scrape_indeed_usa
     \/ scrape_indeed_france
     \/ scrape_ziprecruiter
     \/ cleanup
     \/ score_and_reduce
     \/ main_finally
     \/ app_store_results
     \/ app_show_error

\* the runs in which at most one source never responds and no source fails
\* otherwise: every caller, a good or a missing profile file; the sources
\* hold no posting, since what a source holds plays no part in whether its
\* fetch responds
InitLive ==
  /\ arg_job = Unset
  /\ arg_cv = Unset
  /\ ret_score = Unset
  /\ score_log = <<>>
  /\ Fresh
  /\ SELENIUM_AVAILABLE \in BOOLEAN
  /\ JOBSPY_AVAILABLE = TRUE
  /\ chrome \in {"ok", "no_browser"}
  /\ caller \in {"main", "app", "direct"}
  /\ cv_file \in {ValidFile(CV_NET), MissingFile}
  /\ min_score = 15000
  /\ max_results = 50
  /\ web = EmptyWeb
  /\ faults = {}
  /\ stalls \in {{}} \cup {{c} : c \in CollectorSet}
  /\ ParsedSession

SpecLive == InitLive /\ [][Next]_vars /\ WF_vars(Progress)

(***************************************************************************)
(* One process, several searches: the Streamlit session and a caller that  *)
(* keeps its instance                                                      *)
(***************************************************************************)
\* searches started after the first one
MaxRuns == 2

\* the outcomes of starting the browser
ChromeOutcomes == {"ok", "no_browser", "script_error"}

\* the profiles the CV parser returns in the session
SessionProfiles == {CV_SEC, CV_NET, CV_BLANKDOMAIN}

\* what the sources hold during the session: A and B on a local site, A and
\* a remote job on the aggregator
SessionWeb ==
  [c \in CollectorSet |->
     IF c = "Keejob" THEN <<CardA, CardB>>
     ELSE IF c = "LinkedIn" THEN <<RowA, RowDevRemote>>
     ELSE <<>>]

\* the page before any button was pressed (app.py lines 123-133), or a
\* caller about to construct its instance
InitProcess ==
  /\ arg_job = Unset
  /\ arg_cv = Unset
  /\ ret_score = Unset
  /\ score_log = <<>>
  /\ SELENIUM_AVAILABLE = TRUE
  /\ JOBSPY_AVAILABLE = TRUE
  /\ caller \in {"app", "direct"}
  /\ chrome \in IF caller = "app" THEN {"ok"} ELSE ChromeOutcomes
  /\ cv_file = IF caller = "app" THEN MissingFile ELSE ValidFile(CV_SEC)
  /\ min_score = 15000
  /\ max_results = 50
  /\ web = SessionWeb
  /\ faults = {}
  /\ stalls = {}
  /\ pc = IF caller = "app" THEN "page" ELSE "start"
  /\ sam = "idle"
  /\ scraper = None
  /\ driver = None
  /\ quit_calls = 0
  /\ cv_data = Unset
  /\ search_term = Null
  /\ intl_jobs = <<>>
  /\ all_jobs = <<>>
  /\ fetches = {}
  /\ result = <<>>
  /\ raised = None
  /\ runs = 0
  /\ closed_gets = {}
  /\ NewSession

\* the script is not inside a button handler
PageIdle == caller = "app" /\ pc \in {"page", "done"}

\* the Parse CV button (app.py lines 178-203)
parse_cv ==
  /\ PageIdle
  /\ \E cv \in SessionProfiles : session_cv_data' = cv
  /\ parsing_complete' = TRUE
  /\ UNCHANGED <<scorerVars, envVars, search_term, processVars, jobs_data,
                 selected_job, scraping_complete, jobs_cv, SELENIUM_AVAILABLE,
                 pc, sam, scraper, driver, quit_calls, cv_data, intl_jobs,
                 all_jobs, fetches, result, raised>>

\* the Search Jobs button (app.py lines 272-274 and 290-301): the session's
\* profile is saved to the file, a new UnifiedJobScraper is about to be
\* constructed and starting the browser may end in any way
click_search ==
  /\ PageIdle
  /\ parsing_complete
  /\ runs < MaxRuns
  /\ runs' = runs + 1
  /\ cv_file' = ValidFile(session_cv_data)
  /\ chrome' \in ChromeOutcomes
  /\ pc' = "start"
  /\ sam' = "idle"
  /\ scraper' = None
  /\ driver' = None
  /\ quit_calls' = 0
  /\ cv_data' = Unset
  /\ search_term' = Null
  /\ intl_jobs' = <<>>
  /\ all_jobs' = <<>>
  /\ fetches' = {}
  /\ result' = <<>>
  /\ raised' = None
  /\ UNCHANGED <<scorerVars, sessionVars, closed_gets, SELENIUM_AVAILABLE,
                 JOBSPY_AVAILABLE, caller, min_score, max_results, web, faults,
                 stalls>>

\* a Select button of the job list (app.py lines 322-386)
select_job ==
  /\ PageIdle
  /\ scraping_complete
  /\ \E i \in 1..Len(jobs_data) : selected_job' = jobs_data[i]
  /\ UNCHANGED <<scorerVars, envVars, search_term, processVars, session_cv_data,
                 jobs_data, parsing_complete, scraping_complete, jobs_cv,
                 SELENIUM_AVAILABLE, pc, sam, scraper, driver, quit_calls,
                 cv_data, intl_jobs, all_jobs, fetches, result, raised>>

\* a caller that kept its instance calls scrape_and_match on it again
scrape_and_match_again ==
  /\ caller = "direct"
  /\ pc = "returned"
  /\ runs < MaxRuns
  /\ runs' = runs + 1
  /\ pc' = "load"
  /\ sam' = "idle"
  /\ cv_data' = Unset
  /\ search_term' = Null
  /\ intl_jobs' = <<>>
  /\ all_jobs' = <<>>
  /\ fetches' = {}
  /\ result' = <<>>
  /\ raised' = None
  /\ UNCHANGED <<scorerVars, envVars, sessionVars, closed_gets,
                 SELENIUM_AVAILABLE, scraper, driver, quit_calls>>

NextProcess ==
  \/ UnifiedJobScraper_init
  \/ load_cv_profile
  \/ scrape_emploi_tn
  \/ scrape_tanitjobs
  \/ scrape_keejob
  \/ scrape_linkedin
  \/ scrape_indeed_usa
  \/ scrape_indeed_france
  \/ scrape_ziprecruiter
  \/ cleanup
  \/ score_and_reduce
  \/ app_store_results
  \/ app_show_error
  \/ parse_cv
  \/ click_search
  \/ select_job
  \/ scrape_and_match_again

SpecProcess == InitProcess /\ [][NextProcess]_vars

(***************************************************************************)
(* Notions the properties are stated with                                  *)
(***************************************************************************)
\* scrape_and_match returned a list
Returned == sam = "returned"

\* the run got past the collection and was not interrupted: the reducer ran
Reduced ==
  /\ cv_data # Unset
  /\ raised # "KeyboardInterrupt"
  /\ pc \in {"returned", "except", "done"}

\* the collection ended and the run went on normally
Collected ==
  /\ cv_data # Unset
  /\ raised = None
  /\ pc \in {"cleanup", "reduce", "returned", "done"}

\* the command-line main or the Search Jobs page is through with the scraper
Terminated == pc = "done"

\* (lower-cased title, lower-cased company)
CanonicalKey(job) == <<Lower(job.title), Lower(job.company)>>

\* a returned entry as it was collected: without its match_score
AsCollected(entry) == [k \in (DOMAIN entry) \ {"match_score"} |-> entry[k]]

\* where a returned entry stands in the collection order
CollectedAt(entry) ==
  CHOOSE i \in 1..Len(all_jobs) :
    /\ all_jobs[i] = AsCollected(entry)
    /\ \A j \in 1..(i - 1) : all_jobs[j] # AsCollected(entry)

\* the score the scorer computes for the i-th collected posting
ScoreAt(i) == calculate_match_score(all_jobs[i], cv_data)

\* the i-th collected posting passes the score filter
PassesAt(i) == ~RatLess(ScoreAt(i), <<min_score, 1000>>)

\* the sources that are visited in this run
Enabled(site) ==
  IF site \in TunisiaSites THEN SELENIUM_AVAILABLE /\ driver # None
  ELSE JOBSPY_AVAILABLE

\* the postings a source returns in this run
ReturnedBy(site) ==
  IF ~Enabled(site) \/ FetchRaises(site) THEN <<>>
  ELSE IF site \in TunisiaSites THEN ParseCards(site, web[site])
  ELSE ConvertRows(site, web[site])

\* the postings of the first n sources, in visiting order
RECURSIVE MergedUpTo(_)
MergedUpTo(n) ==
  IF n = 0 THEN <<>> ELSE MergedUpTo(n - 1) \o ReturnedBy(Collectors[n])

(***************************************************************************)
(* Properties                                                              *)
(***************************************************************************)
\* C2: the returned list is in descending order of match_score, and two
\* entries of equal match_score stand in the order they were collected
\* (order of the sources, then order within the source)
ResultSortedStable ==
  Returned =>
    \A i, j \in 1..Len(result) :
      i < j =>
        \/ result[i].match_score > result[j].match_score
        \/ /\ result[i].match_score = result[j].match_score
           /\ CollectedAt(result[i]) < CollectedAt(result[j])
           /\ SiteRank(result[i].site) <= SiteRank(result[j].site)

\* two entries of equal score, from different sources, were returned
TieReturned ==
  /\ Returned
  /\ \E i, j \in 1..Len(result) :
       /\ i < j
       /\ result[i].match_score = result[j].match_score
       /\ result[i].site # result[j].site

\* C3: any two distinct entries of the returned list differ in
\* (lower-cased title, lower-cased company)
ResultKeysDistinct ==
  Returned =>
    \A i, j \in 1..Len(result) :
      i # j => CanonicalKey(result[i]) # CanonicalKey(result[j])

\* a posting was returned while another collected posting that passes the
\* filter has the same key under another spelling
DuplicateRemoved ==
  /\ Returned
  /\ \E e \in 1..Len(result), i \in 1..Len(all_jobs) :
       /\ CanonicalKey(all_jobs[i]) = CanonicalKey(result[e])
       /\ all_jobs[i].title # result[e].title
       /\ PassesAt(i)

\* C4: a returned entry has the highest computed score among the collected
\* postings of its key that pass the filter, and is the earliest collected of
\* those that reach that score
SurvivorIsBestScored ==
  Returned =>
    \A e \in 1..Len(result) : \A i \in 1..Len(all_jobs) :
      (CanonicalKey(all_jobs[i]) = CanonicalKey(result[e]) /\ PassesAt(i)) =>
        LET kept == CollectedAt(result[e])
        IN  /\ ~RatLess(ScoreAt(kept), ScoreAt(i))
            /\ RatEq(ScoreAt(kept), ScoreAt(i)) => kept <= i

\* C5: no returned entry stores a match_score lower than min_score
StoredScoreAtLeastMin ==
  Returned =>
    \A e \in 1..Len(result) : result[e].match_score * 10 >= min_score

FailuresIsolated ==
  /\ (cv_data # Unset /\ raised # "KeyboardInterrupt") => raised = None
  /\ Collected => all_jobs = MergedUpTo(Len(Collectors))

\* a source that holds items failed, and the others' postings were merged
PartialFailureMerged ==
  /\ Collected
  /\ \E c \in faults : Enabled(c) /\ Len(web[c]) > 0
  /\ Len(all_jobs) > 0

\* C8: when the caller is through, driver.quit() was called exactly once on
\* the session of every instance that owns one
QuitExactlyOnce ==
  (Terminated /\ scraper # None /\ driver # None) => quit_calls = 1

\* C9: when every source returned no posting, scrape_and_match returns the
\* empty list and does not raise
NothingCollectedReturnsEmpty ==
  (Reduced /\ \A c \in CollectorSet : Len(ReturnedBy(c)) = 0) =>
    (Returned /\ result = <<>>)

\* all seven sources were visited, none returned a posting, and the call
\* returned
AllSourcesEmptyReturned ==
  /\ Returned
  /\ \A c \in CollectorSet : Enabled(c) /\ Len(ReturnedBy(c)) = 0

\* C10: when postings were collected and every computed score is below
\* min_score, scrape_and_match returns the empty list and does not raise
AllBelowThresholdReturnsEmpty ==
  (/\ Reduced
   /\ Len(all_jobs) > 0
   /\ \A i \in 1..Len(all_jobs) : RatLess(ScoreAt(i), <<min_score, 1000>>)) =>
    (Returned /\ result = <<>>)

\* postings were collected, all scored below min_score, and the call returned
AllBelowThresholdReturned ==
  /\ Returned
  /\ Len(all_jobs) > 0
  /\ \A i \in 1..Len(all_jobs) : RatLess(ScoreAt(i), <<min_score, 1000>>)

\* the postings of the aggregator's sub-searches up to the n-th source
RECURSIVE InternationalUpTo(_)
InternationalUpTo(n) ==
  IF n <= Cardinality(TunisiaSites) THEN <<>>
  ELSE InternationalUpTo(n - 1) \o ReturnedBy(Collectors[n])

\* the last n entries of a list
LastOf(list, n) == SubSeq(list, Len(list) - n + 1, Len(list))

\* the profile file cannot be loaded
ProfileUnreadable == cv_file.state # "valid"

\* C11: with a missing or invalid profile file no source is ever fetched and
\* nothing is collected, and scrape_and_match ends by raising the error of
\* the loader
ProfileErrorBeforeCollection ==
  ProfileUnreadable =>
    /\ fetches = {}
    /\ all_jobs = <<>> /\ intl_jobs = <<>>
    /\ sam \in {"idle", "raised"}
    /\ (scraper # None /\ pc \in {"except", "done"} /\ raised # "KeyboardInterrupt") =>
         /\ sam = "raised"
         /\ raised = IF cv_file.state = "missing" THEN "FileNotFoundError"
                     ELSE "ValueError"

\* scrape_and_match raised on an unreadable file although sources were
\* enabled and held postings
ProfileErrorRaised ==
  /\ ProfileUnreadable
  /\ sam = "raised"
  /\ raised \in {"FileNotFoundError", "ValueError"}
  /\ web = FullWeb
  /\ \A c \in CollectorSet : Enabled(c)

\* C12: when neither group of sources is usable once the constructor ran,
\* the constructor raised RuntimeError, no instance exists, and
\* scrape_and_match never started: nothing was loaded or fetched
ConstructionFailsWithoutSources ==
  (pc # "start" /\ ~SELENIUM_AVAILABLE /\ ~JOBSPY_AVAILABLE) =>
    /\ scraper = None
    /\ raised = "RuntimeError"
    /\ sam = "idle"
    /\ cv_data = Unset
    /\ fetches = {}

\* the constructor raised after the browser failed to start
NoSourcesRaised ==
  /\ raised = "RuntimeError"
  /\ chrome # "ok"
  /\ ~JOBSPY_AVAILABLE

\* the browser was started and the start failed, the aggregator is there
BrowserFailed == pc # "start" /\ chrome # "ok" /\ JOBSPY_AVAILABLE

\* C13: when the browser fails to start and the aggregator is available, the
\* constructor succeeds, no local site is fetched or contributes a posting,
\* all four sub-searches are fetched, and every posting of theirs that passes
\* the filter is returned (under its key)
BrowserFailureKeepsAggregator ==
  BrowserFailed =>
    /\ scraper # None
    /\ raised # "RuntimeError"
    /\ fetches \cap TunisiaSites = {}
    /\ \A i \in 1..Len(all_jobs) : all_jobs[i].site \in InternationalSites
    /\ Collected =>
         /\ InternationalSites \subseteq fetches
         /\ all_jobs = InternationalUpTo(Len(Collectors))
    /\ Returned =>
         \A i \in 1..Len(all_jobs) :
           PassesAt(i) =>
             \E e \in 1..Len(result) :
               CanonicalKey(result[e]) = CanonicalKey(all_jobs[i])

\* the browser failed to start and postings of the aggregator were returned
AggregatorOnlyReturned ==
  /\ BrowserFailed
  /\ Returned
  /\ Len(result) > 0
  /\ \E c \in TunisiaSites : Len(web[c]) > 0

\* scoring is about to start, or has been done
ScoringStarted == pc = "reduce" \/ sam = "returned" \/ Len(result) > 0

\* C14: when scoring starts every enabled source has been fetched and has
\* ended, and no step fetches a source or adds a posting after that
ScoringAfterCollection ==
  /\ [](ScoringStarted =>
          /\ sam \in {"running", "returned"}
          /\ \A c \in CollectorSet : Enabled(c) => c \in fetches
          /\ intl_jobs = <<>>)
  /\ [][ScoringStarted => (fetches' = fetches /\ all_jobs' = all_jobs)]_vars

\* all seven sources were fetched and postings scored and returned
ScoredAfterAllSources ==
  /\ Returned
  /\ fetches = CollectorSet
  /\ Len(result) > 0

\* C15: a run in which a fetch never responds still ends, unless the user
\* interrupts it: scrape_and_match returns a list
StalledFetchTimesOut ==
  (sam = "running" /\ stalls # {}) ~>
    (sam = "returned" \/ raised = "KeyboardInterrupt")

\* C16: every collected posting has a non-empty title
CollectedTitlesNonEmpty ==
  /\ \A i \in 1..Len(all_jobs) : Truthy(all_jobs[i].title)
  /\ \A i \in 1..Len(intl_jobs) : Truthy(intl_jobs[i].title)

\* postings A and B of the ranking example, wherever they were collected
IsA(job) == job.title = T_PythonSecurityEngineer

IsB(job) == job.title = T_SalesAssociate

\* C19: for the profile of the example the scorer gives every collected A
\* (from a card or a row) a strictly higher score than every collected B,
\* and in the returned list no B stands before an A
ExampleRanksAbove ==
  (cv_data = CV_SEC /\ pc \in {"reduce", "returned"}) =>
    /\ \A i, j \in 1..Len(all_jobs) :
         (IsA(all_jobs[i]) /\ IsB(all_jobs[j])) => RatLess(ScoreAt(j), ScoreAt(i))
    /\ \A i, j \in 1..Len(result) :
         (IsB(result[i]) /\ IsA(result[j])) => j < i

\* B was collected before A, both were returned
ExampleBothReturned ==
  /\ Returned
  /\ cv_data = CV_SEC
  /\ Len(all_jobs) = 2 /\ IsB(all_jobs[1]) /\ IsA(all_jobs[2])
  /\ Len(result) = 2

\* C20: each of the four sub-searches is run whatever the earlier ones did,
\* and scrape_international_jobs accumulates, then hands over, exactly the
\* postings of the sub-searches that did not fail, in the order LinkedIn,
\* Indeed USA, Indeed France, ZipRecruiter
SubSearchFailuresIsolated ==
  /\ pc \in InternationalSites =>
       /\ intl_jobs = InternationalUpTo(SiteRank(pc) - 1)
       /\ \A c \in InternationalSites : SiteRank(c) < SiteRank(pc) => c \in fetches
  /\ (Collected /\ JOBSPY_AVAILABLE) =>
       /\ InternationalSites \subseteq fetches
       /\ LET found == InternationalUpTo(Len(Collectors))
          IN  /\ Len(found) <= Len(all_jobs)
              /\ LastOf(all_jobs, Len(found)) = found

\* a sub-search that holds postings failed, and a later one contributed
SubSearchFailedOthersMerged ==
  /\ Collected
  /\ \E c \in faults \cap InternationalSites :
       /\ Len(web[c]) > 0
       /\ \E d \in InternationalSites \ faults :
            SiteRank(d) > SiteRank(c) /\ Len(ReturnedBy(d)) > 0

\* scrape_and_match built its search term, or was left by an exception on
\* the way to it
TermBuilt ==
  /\ sam # "idle"
  /\ cv_file.state = "valid"
  /\ ~(raised = "KeyboardInterrupt" /\ cv_data = Unset)

\* the term the four rules name for a profile: the title of at most 4 words,
\* else the first declared domain, else the first technical skill, else the
\* default term
DeclaredTerm(cv) ==
  LET title == Get(cv, "title", <<>>)
      domains == IF "job_search_intent" \in DOMAIN cv
                 THEN Get(cv.job_search_intent, "domains", <<>>) ELSE <<>>
      skills == IF "skills" \in DOMAIN cv
                THEN Get(cv.skills, "technical", <<>>) ELSE <<>>
  IN  IF title # <<>> /\ Len(Split(title)) <= 4 THEN title
      ELSE IF domains # <<>> /\ domains[1] # <<>> THEN domains[1]
      ELSE IF skills # <<>> THEN skills[1]
      ELSE T_informatique

\* C21: the search term is the profile title if it has at most 4 words, else
\* the first declared domain, else the first technical skill, else
\* "informatique"
SearchTermAsDeclared ==
  (TermBuilt /\ search_term # Null) => search_term = DeclaredTerm(cv_file.json)

\* C27: build_search_term is total: for every profile whose title is a string
\* and whose domains and skills are lists of strings, empty and blank strings
\* included, it raises nothing and returns a non-empty term
BuildSearchTermTotal ==
  TermBuilt => /\ raised # "IndexError"
               /\ search_term # Null
               /\ Len(search_term) > 0

\* C22: a posting created by a collector keeps all its fields through
\* calculate_match_score and scrape_and_match; the only write is match_score,
\* once per posting, and the profile is not modified
PostingsOnlyGainScore ==
  Returned =>
    /\ all_jobs = MergedUpTo(Len(Collectors))
    /\ cv_data = cv_file.json
    /\ \A i \in 1..Len(all_jobs) : "match_score" \notin DOMAIN all_jobs[i]
    /\ \A i \in 1..Len(result) :
         /\ "match_score" \in DOMAIN result[i]
         /\ \E j \in 1..Len(all_jobs) : all_jobs[j] = AsCollected(result[i])
         /\ \A k \in 1..Len(result) :
              k # i => AsCollected(result[k]) # AsCollected(result[i])

\* some collected postings were returned with a score, others were not
ScoredAndUnscored ==
  /\ Returned
  /\ Len(result) >= 1
  /\ Len(all_jobs) > Len(result)

\* D: the distinct (lower-cased title, lower-cased company) keys among the
\* collected postings whose score is at least min_score
DistinctPassingKeys ==
  {CanonicalKey(all_jobs[i]) : i \in {j \in 1..Len(all_jobs) : PassesAt(j)}}

PostingText(job) ==
  Lower(Get(job, "title", <<>>) \o <<" ">> \o Get(job, "description", <<>>))

\* the technical skills of a profile, none when the field is missing
TechnicalSkills(cv) ==
  IF "skills" \in DOMAIN cv /\ "technical" \in DOMAIN cv.skills
  THEN cv.skills.technical ELSE <<>>

\* twice what one skill counts: 2 for the whole lower-cased phrase in the
\* text, else 1 for one of its words longer than 3 characters, else 0
SkillCountsTwice(skill, text) ==
  LET phrase == Lower(skill)
      words  == Split(phrase)
  IN  IF Contains(phrase, text) THEN 2
      ELSE IF \E k \in 1..Len(words) : Len(words[k]) > 3 /\ Contains(words[k], text)
      THEN 1 ELSE 0

RECURSIVE SumCountsTwice(_, _)
SumCountsTwice(skills, text) ==
  IF Len(skills) = 0 THEN 0
  ELSE SkillCountsTwice(Head(skills), text) + SumCountsTwice(Tail(skills), text)

\* (sum / number of skills considered) x 35 over the first 20 skills
DeclaredSkillSignal(job, cv) ==
  LET all == TechnicalSkills(cv)
      considered == SubSeq(all, 1, IF Len(all) < 20 THEN Len(all) ELSE 20)
  IN  IF Len(considered) = 0 THEN <<0, 1>>
      ELSE <<35 * SumCountsTwice(considered, PostingText(job)), 2 * Len(considered)>>

\* C24: the skill signal of every returned score is (sum / number of skills
\* considered) x 35 over the first 20 technical skills, a skill counting 1
\* when its whole phrase is in the posting text, else 0.5 when one of its
\* words longer than 3 characters is, else 0; it is at most 35
SkillSignalAsDeclared ==
  \A i \in 1..Len(score_log) :
    LET job == score_log[i].job
        cv  == score_log[i].cv
        signal == DeclaredSkillSignal(job, cv)
        others == RatAdd(RatAdd(RatAdd(PresenceSignal(job),
                                       DomainSignal(JobText(job), cv)),
                                LocationSignal(job)),
                         TitleSignal(job, cv))
    IN  /\ ~RatLess(<<35, 1>>, signal)
        /\ RatEq(score_log[i].score, RatMin(RatAdd(others, signal), <<100, 1>>))

\* a score was returned for a profile of 21 skills and a posting that names
\* the first skill in full, one word of the second, and the 21st
SkillsBeyondTwentyScored ==
  \E i \in 1..Len(score_log) :
    LET skills == TechnicalSkills(score_log[i].cv)
        text == PostingText(score_log[i].job)
    IN  /\ Len(skills) > 20
        /\ SkillCountsTwice(skills[1], text) = 2
        /\ SkillCountsTwice(skills[2], text) = 1
        /\ Contains(Lower(skills[21]), text)

\* the domain keywords: the words longer than 4 characters of all declared
\* domains
RECURSIVE DeclaredDomainKeywords(_)
DeclaredDomainKeywords(domains) ==
  IF Len(domains) = 0 THEN <<>>
  ELSE LET words == Split(Head(domains))
       IN  SelectSeq(words, LAMBDA w : Len(w) > 4)
           \o DeclaredDomainKeywords(Tail(domains))

\* (keywords found case-insensitively / keywords) x 30, 0 without keyword
DeclaredDomainSignal(job, cv) ==
  LET domains == IF "job_search_intent" \in DOMAIN cv
                    /\ "domains" \in DOMAIN cv.job_search_intent
                 THEN cv.job_search_intent.domains ELSE <<>>
      keywords == DeclaredDomainKeywords(domains)
      found == {k \in 1..Len(keywords) :
                  Contains(Lower(keywords[k]), PostingText(job))}
  IN  IF Len(keywords) = 0 THEN <<0, 1>>
      ELSE <<30 * Cardinality(found), Len(keywords)>>

\* C25: the domain signal of every returned score is (domain keywords found
\* case-insensitively in title + description / domain keywords) x 30; it is
\* at most 30, and 0 when the profile has no domain keyword
DomainSignalAsDeclared ==
  \A i \in 1..Len(score_log) :
    LET job == score_log[i].job
        cv  == score_log[i].cv
        signal == DeclaredDomainSignal(job, cv)
        others == RatAdd(RatAdd(RatAdd(PresenceSignal(job),
                                       SkillSignal(JobText(job), cv)),
                                LocationSignal(job)),
                         TitleSignal(job, cv))
    IN  /\ ~RatLess(<<30, 1>>, signal)
        /\ RatEq(score_log[i].score, RatMin(RatAdd(others, signal), <<100, 1>>))

\* a score was returned for a posting that names one of the two domain
\* keywords of the profile
HalfOfDomainKeywordsScored ==
  \E i \in 1..Len(score_log) :
    RatEq(DeclaredDomainSignal(score_log[i].job, score_log[i].cv), <<15, 1>>)

\* the location of the posting mentions the home-market keyword
MentionsHomeMarket(job) == Contains(tunis, Lower(job.location))

\* the posting says it is remote
IsRemote(job) == "is_remote" \in DOMAIN job /\ job.is_remote

\* C26: the location/remote signal is exactly 15 when the location of the
\* posting mentions the home-market keyword or the posting is remote, and 0
\* otherwise; a posting of a local-site collector is never remote, so it gets
\* the 15 points through its location only
LocationSignalAsDeclared ==
  (cv_data # Unset /\ pc \in {"reduce", "returned"}) =>
    \A i \in 1..Len(all_jobs) :
      LET job == all_jobs[i]
          signal == IF MentionsHomeMarket(job) \/ IsRemote(job)
                    THEN <<15, 1>> ELSE <<0, 1>>
          others == RatAdd(RatAdd(RatAdd(PresenceSignal(job),
                                         DomainSignal(JobText(job), cv_data)),
                                  SkillSignal(JobText(job), cv_data)),
                           TitleSignal(job, cv_data))
      IN  /\ RatEq(ScoreAt(i), RatMin(RatAdd(others, signal), <<100, 1>>))
          /\ job.site \in TunisiaSites => ~IsRemote(job)

\* a local-site posting and a remote posting located elsewhere were scored
LocalAndRemoteScored ==
  /\ Returned
  /\ \E i \in 1..Len(all_jobs) :
       all_jobs[i].site \in TunisiaSites /\ MentionsHomeMarket(all_jobs[i])
  /\ \E i \in 1..Len(all_jobs) :
       IsRemote(all_jobs[i]) /\ ~MentionsHomeMarket(all_jobs[i])

\* C28: SELENIUM_AVAILABLE only changes from true to false: an instance
\* constructed while it is false has no driver, no local site is asked while
\* it is false, and nothing sets it back to true
SeleniumFlagOnlyFalls ==
  [][/\ SELENIUM_AVAILABLE' => SELENIUM_AVAILABLE
     /\ (~SELENIUM_AVAILABLE /\ pc = "start") => driver' = None
     /\ ~SELENIUM_AVAILABLE => (fetches' \cap TunisiaSites) \subseteq fetches]_vars

\* after a construction that failed, a later instance was constructed while
\* the browser would have started; it returned postings of the aggregator
\* only
LaterInstanceWithoutDriver ==
  /\ runs = 2
  /\ ~SELENIUM_AVAILABLE
  /\ chrome = "ok"
  /\ Returned
  /\ driver = None
  /\ fetches \cap TunisiaSites = {}
  /\ Len(result) > 0

\* C29: once cleanup() closed the browser session of an instance, no local
\* scraper issues a request on it, and a later cleanup() does not quit it
\* again
ClosedSessionLeftAlone ==
  /\ [](closed_gets = {})
  /\ [][SessionClosed => (quit_calls' = quit_calls \/ quit_calls' = 0)]_vars

\* C30: a selected job is an element of the current jobs_data, and the
\* current jobs_data was computed from the current cv_data
SessionConsistent ==
  /\ selected_job # Unset => \E i \in 1..Len(jobs_data) : jobs_data[i] = selected_job
  /\ scraping_complete => jobs_cv = session_cv_data

====
